---- MODULE Spec2Model ----
(***************************************************************************)
(* nova/compute/manager.py: ComputeManager.                                *)
(*                                                                         *)
(* Every entry point decorated with defer.inlineCallbacks runs from one    *)
(* `yield` to the next as one atomic step; at a `yield` the call may be    *)
(* suspended and any other call may run.  A call is a record of `calls`;   *)
(* its `pc` names the yield it is suspended at.  The driver, the network   *)
(* and volume managers, the instance store (self.db) and rpc are external: *)
(* the answers of the driver, the managers and rpc are inputs drawn with   *)
(* \E, and the store is the variables db and vol.  live_migration is a     *)
(* plain function: it is cut at its rpc and driver calls, where the peer   *)
(* and the hypervisor answer.                                              *)
(***************************************************************************)
EXTENDS Naturals, Sequences, FiniteSets

\* ---------------------------------------------------------------- bounds
MaxCalls == 2          \* inbound calls in one behaviour
MaxTimeout == 2        \* largest FLAGS.live_migration_timeout tried

Instances == {"i1", "i2"}
Served == {"i1"}       \* the instances the calls of Spec are made for
VolumeOrder == <<"v1", "v2">>
Volumes == {VolumeOrder[n] : n \in 1..Len(VolumeOrder)}
Mountpoints == {"/dev/vdb", "/dev/vdc"}
CallIds == {1, 2}     \* two inbound calls can overlap

\* nova.compute.power_state, as far as manager.py and the spec name it
NOSTATE == "NOSTATE"
RUNNING == "RUNNING"
SHUTDOWN == "SHUTDOWN"
SHUTOFF == "SHUTOFF"
PowerStates == {NOSTATE, RUNNING, SHUTDOWN, SHUTOFF}

\* what driver.get_info(name) can answer: a state, or NotFound ("absent")
DriverStates == PowerStates \cup {"absent"}

\* what rpc.call can hand back to live_migration: True, False, None, or a
\* value that is true in a condition without being True ("1")
RpcResults == {"True", "False", "None", "1"}

\* `if ret`, `if not ret`
Truthy(x) == x \in {"True", "1"}

VARIABLES
    db,          \* instance store: id -> record
    vol,         \* volume store and compute-node provisioning: id -> record
    calls,       \* the inbound calls in flight: slot -> call record
    made         \* the number of inbound calls made so far

vars == <<db, vol, calls, made>>

\* ---------------------------------------------------------------- store
\* self.db.instance_update(context, instance_id, {'host': self.host})
instance_update_host(d, i) ==
    [d EXCEPT ![i].host = "this"]

\* self.db.instance_update(context, instance_id, {'launched_at': now})
instance_update_launched(d, i) ==
    [d EXCEPT ![i].launched_at = TRUE]

\* db.instance_set_state(context, instance_id, state, description=None):
\* the power state is persisted, the task state becomes the description,
\* none when no description is given.
instance_set_state(d, i, state, description) ==
    [d EXCEPT ![i].state = state, ![i].task = description]

\* self.db.instance_destroy(context, instance_id)
instance_destroy(d, i) ==
    [d EXCEPT ![i].exists = FALSE]

\* self.db.volume_attached(context, volume_id, instance_id, mountpoint)
volume_attached(vs, v, i, mp) ==
    [vs EXCEPT ![v].inst = i, ![v].mountpoint = mp]

\* self.db.volume_detached(context, volume_id)
volume_detached(vs, v) ==
    [vs EXCEPT ![v].inst = "none", ![v].mountpoint = "none"]

\* instance_ref.get('volumes', []) or []: the volumes linked to the
\* instance, in the order the record lists them
RECURSIVE VolumesFrom(_, _, _)
VolumesFrom(vs, i, n) ==
    IF n > Len(VolumeOrder) THEN <<>>
    ELSE IF vs[VolumeOrder[n]].inst = i
         THEN <<VolumeOrder[n]>> \o VolumesFrom(vs, i, n + 1)
         ELSE VolumesFrom(vs, i, n + 1)

instance_volumes(vs, i) == VolumesFrom(vs, i, 1)

\* ---------------------------------------------------------------- calls
NoFrames == <<>>

IdleCall ==
    [op |-> "idle", inst |-> "none", vol |-> "none", mountpoint |-> "none",
     pc |-> "idle", result |-> "none", log |-> <<>>,
     listed |-> FALSE, ref_state |-> "none", info |-> "none",
     frames |-> NoFrames,
     exc |-> "none", ret |-> "none", timeout |-> 0, timeout_count |-> 0,
     polls |-> <<>>, sleeps |-> 0,
     fixed_ip |-> "none", volumes |-> "none"]

\* the slot of the next inbound call, 0 when none can be made
NextCall ==
    IF made < MaxCalls /\ \E c \in CallIds : calls[c].op = "idle"
    THEN CHOOSE c \in CallIds :
             /\ calls[c].op = "idle"
             /\ \A b \in CallIds : b < c => calls[b].op # "idle"
    ELSE 0

Finish(call, result) == [call EXCEPT !.pc = "done", !.result = result]

\* the activations of detach_volume a call has left suspended
Suspended(call) ==
    {k \in 1..Len(call.frames) : call.frames[k].pc # "done"}

\* a finished call returns before the reactor runs the next callback
Returning ==
    \E c \in CallIds :
        \/ calls[c].pc = "done"
        \/ calls[c].pc = "returned" /\ Suspended(calls[c]) = {}

\* ---------------------------------------------------------------- 4.1
\* the NotFound of get_info taken for a stopped instance
SyncedStateNotFoundShutdown(info) ==
    IF info = "absent" THEN SHUTDOWN ELSE info

\* the NotFound of get_info not caught: no NOSTATE is recorded
SyncedStateNotFoundKept(info) == info

\* lines 83-87: info is what driver.get_info(instance_ref['name']) answers
SyncedState(info) == IF info = "absent" THEN NOSTATE ELSE info

\* a synchronizer that resets a record already holding the driver's state
update_stateResets(d, i, info) ==
    instance_set_state(d, i,
                       IF d[i].state = SyncedState(info) THEN NOSTATE
                       ELSE SyncedState(info),
                       "none")

\* _update_state(context, instance_id)
update_state(d, i, info) ==
    instance_set_state(d, i, SyncedState(info), "none")

\* ---------------------------------------------------------------- run
\* the test of line 102 left out
AlreadyCreatedNoTest(listed) == FALSE

\* line 102: `if instance_ref['name'] in self.driver.list_instances()`
AlreadyCreated(listed) == listed

\* run_instance up to `yield self.driver.spawn(instance_ref)`; listed is
\* whether driver.list_instances() holds the instance's name
RunInstance(i, listed, net_ok) ==
    LET c == NextCall
        call == [IdleCall EXCEPT !.op = "run_instance", !.inst = i,
                                 !.listed = listed]
    IN
    /\ c # 0
    /\ made' = made + 1
    /\ UNCHANGED vol
    /\ IF AlreadyCreated(listed)
       THEN /\ calls' = [calls EXCEPT ![c] =
                             Finish(call, "Error: already created")]
            /\ UNCHANGED db
       ELSE IF ~net_ok
       THEN /\ calls' = [calls EXCEPT ![c] =
                   Finish([call EXCEPT !.log = <<"setup_compute_network">>],
                          "NetworkError")]
            /\ UNCHANGED db
       ELSE /\ db' = instance_set_state(instance_update_host(db, i), i,
                                        NOSTATE, "spawning")
            /\ calls' = [calls EXCEPT ![c] =
                   [call EXCEPT !.pc = "spawn",
                                !.log = <<"setup_compute_network", "spawn">>]]

\* a run_instance that gives up when its record was destroyed meanwhile
SpawnReturnSkipsDestroyed(c, info, spawn_ok) ==
    LET call == calls[c]
        i == call.inst
        d1 == IF spawn_ok
              THEN instance_update_launched(db, i)
              ELSE instance_set_state(db, i, SHUTDOWN, "none")
    IN
    /\ call.op = "run_instance" /\ call.pc = "spawn"
    /\ db' = IF db[i].exists THEN update_state(d1, i, info) ELSE db
    /\ calls' = [calls EXCEPT ![c] =
           Finish([call EXCEPT
                      !.info = info,
                      !.log = @ \o <<IF spawn_ok THEN "spawn ok"
                                     ELSE "spawn failed", "_update_state">>],
                  IF db[i].exists THEN "ok" ELSE "NotFound")]
    /\ UNCHANGED <<vol, made>>

\* run_instance from the return of driver.spawn to its end
SpawnReturn(c, info, spawn_ok) ==
    LET call == calls[c]
        i == call.inst
        d1 == IF spawn_ok
              THEN instance_update_launched(db, i)
              ELSE instance_set_state(db, i, SHUTDOWN, "none")
    IN
    /\ call.op = "run_instance" /\ call.pc = "spawn"
    /\ db' = update_state(d1, i, info)
    /\ calls' = [calls EXCEPT ![c] =
           Finish([call EXCEPT
                      !.info = info,
                      !.log = @ \o <<IF spawn_ok THEN "spawn ok"
                                     ELSE "spawn failed", "_update_state">>],
                  "ok")]
    /\ UNCHANGED <<vol, made>>

\* ---------------------------------------------------------------- 4.3 detach
\* One activation of detach_volume.  pc names the yield it waits at:
\* "driver" (driver.detach_volume), "remove" (remove_compute_volume).

\* the unknown-instance branch returning after its warning
DetachBeginUnknownReturns(vs, listed, i, v) ==
    IF ~listed
    THEN [vol |-> v, inst |-> i, pc |-> "done", result |-> "ok",
          known |-> FALSE, mountpoint |-> "none", log |-> <<"warn">>]
    ELSE [vol |-> v, inst |-> i, pc |-> "driver", result |-> "none",
          known |-> TRUE, mountpoint |-> vs[v].mountpoint,
          log |-> <<"driver.detach_volume">>]

\* detach_volume up to its first yield
DetachBegin(vs, listed, i, v) ==
    IF ~listed
    THEN [vol |-> v, inst |-> i, pc |-> "remove", result |-> "none",
          known |-> FALSE, mountpoint |-> "none",
          log |-> <<"warn", "remove_compute_volume">>]
    ELSE [vol |-> v, inst |-> i, pc |-> "driver", result |-> "none",
          known |-> TRUE, mountpoint |-> vs[v].mountpoint,
          log |-> <<"driver.detach_volume">>]

\* driver.detach_volume has returned (ok) or raised
DetachDriverReturn(f, ok) ==
    IF ok
    THEN [f EXCEPT !.pc = "remove", !.log = @ \o <<"remove_compute_volume">>]
    ELSE [f EXCEPT !.pc = "done", !.result = "DriverError"]

\* remove_compute_volume has returned (ok) or raised; then volume_detached
DetachRemoveReturn(w, ok) ==
    LET f == w.frame IN
    IF ok
    THEN [vol |-> volume_detached(
                      [w.vol EXCEPT ![f.vol].provisioned = FALSE], f.vol),
          frame |-> [f EXCEPT !.pc = "done", !.result = "ok",
                              !.log = @ \o <<"volume_detached">>]]
    ELSE [vol |-> w.vol,
          frame |-> [f EXCEPT !.pc = "done", !.result = "VolumeError"]]

StepFrame(w, ok) ==
    IF w.frame.pc = "driver"
    THEN [w EXCEPT !.frame = DetachDriverReturn(@, ok)]
    ELSE DetachRemoveReturn(w, ok)

\* A Deferred that has already fired when it is yielded does not suspend
\* the generator: `sync` lists the results of the yields that are answered
\* at once, and the activation stops at the first yield after them.
SyncRuns == {<<>>, <<TRUE>>, <<FALSE>>, <<TRUE, TRUE>>, <<TRUE, FALSE>>}

\* what one activation started by terminate_instance meets: the answer of
\* list_instances and the yields answered at once
SyncPlans == [listed : BOOLEAN, sync : SyncRuns]

RECURSIVE RunFrame(_, _)
RunFrame(w, plan) ==
    IF plan = <<>> \/ w.frame.pc = "done" THEN w
    ELSE RunFrame(StepFrame(w, Head(plan)), Tail(plan))

\* terminate_instance, lines 139-141: detach_volume is called for each
\* volume in turn and its Deferred is dropped, so each activation runs as
\* far as its yields are answered at once and the loop goes on.
RECURSIVE LaunchDetaches(_, _, _, _, _)
LaunchDetaches(vs, i, volumes, plans, k) ==
    IF k > Len(volumes) THEN [vol |-> vs, frames |-> <<>>]
    ELSE LET w == RunFrame([vol |-> vs,
                            frame |-> DetachBegin(vs, plans[k].listed, i,
                                                  volumes[k])],
                           plans[k].sync)
             rest == LaunchDetaches(w.vol, i, volumes, plans, k + 1)
         IN [vol |-> rest.vol, frames |-> <<w.frame>> \o rest.frames]

\* detach_volume as an inbound call, up to its first yield
DetachVolume(i, v, listed) ==
    LET c == NextCall
        call == [IdleCall EXCEPT !.op = "detach_volume", !.inst = i,
                                 !.vol = v, !.pc = "detach",
                                 !.frames = <<DetachBegin(vol, listed, i, v)>>]
    IN
    /\ c # 0
    /\ made' = made + 1
    /\ calls' = [calls EXCEPT ![c] = call]
    /\ UNCHANGED <<db, vol>>

\* the result a call gets from the activation that has just moved: an
\* inbound detach_volume ends with its activation, terminate_instance
\* never looks at the Deferreds it dropped
AfterFrame(call, f) ==
    IF call.op = "detach_volume" /\ f.pc = "done"
    THEN Finish(call, f.result)
    ELSE call

\* a suspended activation resumes at the return of driver.detach_volume
DetachDriverResume(c, k, ok) ==
    LET call == calls[c] IN
    /\ k \in 1..Len(call.frames)
    /\ call.frames[k].pc = "driver"
    /\ LET f == DetachDriverReturn(call.frames[k], ok) IN
       calls' = [calls EXCEPT ![c] =
                     AfterFrame([call EXCEPT !.frames[k] = f], f)]
    /\ UNCHANGED <<db, vol, made>>

\* a suspended activation resumes at the return of remove_compute_volume
DetachRemoveResume(c, k, ok) ==
    LET call == calls[c] IN
    /\ k \in 1..Len(call.frames)
    /\ call.frames[k].pc = "remove"
    /\ LET w == DetachRemoveReturn([vol |-> vol, frame |-> call.frames[k]],
                                   ok) IN
       /\ vol' = w.vol
       /\ calls' = [calls EXCEPT ![c] =
                        AfterFrame([call EXCEPT !.frames[k] = w.frame],
                                   w.frame)]
    /\ UNCHANGED <<db, made>>

\* ---------------------------------------------------------------- terminate
\* line 142 testing for the wrong power state
AlreadyDestroyedShutdown(ref_state) == ref_state = SHUTDOWN

\* line 142: `if instance_ref['state'] == power_state.SHUTOFF`
AlreadyDestroyed(ref_state) == ref_state = SHUTOFF

\* terminate_instance up to `yield self.driver.destroy(instance_ref)`
TerminateInstance(i, plans) ==
    LET c == NextCall
        volumes == instance_volumes(vol, i)
        launched == LaunchDetaches(vol, i, volumes, plans, 1)
        call == [IdleCall EXCEPT !.op = "terminate_instance", !.inst = i,
                                 !.ref_state = db[i].state,
                                 !.frames = launched.frames]
    IN
    /\ c # 0
    /\ made' = made + 1
    /\ DOMAIN plans = 1..Len(volumes)
    /\ vol' = launched.vol
    /\ IF AlreadyDestroyed(call.ref_state)
       THEN /\ db' = instance_destroy(db, i)
            /\ calls' = [calls EXCEPT ![c] =
                   Finish([call EXCEPT !.log = <<"instance_destroy">>],
                          "Error: already destroyed")]
       ELSE /\ db' = db
            /\ calls' = [calls EXCEPT ![c] =
                   [call EXCEPT !.pc = "destroy", !.log = <<"destroy">>]]

\* the record destroyed whether or not driver.destroy raised
DestroyReturnAlwaysDestroys(c, ok) ==
    LET call == calls[c] IN
    /\ call.op = "terminate_instance" /\ call.pc = "destroy"
    /\ db' = instance_destroy(db, call.inst)
    /\ calls' = [calls EXCEPT ![c] =
           IF ok
           THEN Finish([call EXCEPT !.log = @ \o <<"instance_destroy">>],
                       "ok")
           ELSE Finish(call, "DriverError")]
    /\ UNCHANGED <<vol, made>>

\* terminate_instance from the return of driver.destroy to its end
DestroyReturn(c, ok) ==
    LET call == calls[c] IN
    /\ call.op = "terminate_instance" /\ call.pc = "destroy"
    /\ IF ok
       THEN /\ db' = instance_destroy(db, call.inst)
            /\ calls' = [calls EXCEPT ![c] =
                   Finish([call EXCEPT !.log = @ \o <<"instance_destroy">>],
                          "ok")]
       ELSE /\ db' = db
            /\ calls' = [calls EXCEPT ![c] = Finish(call, "DriverError")]
    /\ UNCHANGED <<vol, made>>

\* ---------------------------------------------------------------- 4.3 attach
\* attach_volume up to `yield self.volume_manager.setup_compute_volume`
AttachVolume(i, v, mp) ==
    LET c == NextCall
        call == [IdleCall EXCEPT !.op = "attach_volume", !.inst = i,
                                 !.vol = v, !.mountpoint = mp,
                                 !.pc = "setup",
                                 !.log = <<"setup_compute_volume">>]
    IN
    /\ c # 0
    /\ made' = made + 1
    /\ calls' = [calls EXCEPT ![c] = call]
    /\ UNCHANGED <<db, vol>>

\* from the return of setup_compute_volume to `yield driver.attach_volume`
SetupReturn(c, ok) ==
    LET call == calls[c] IN
    /\ call.op = "attach_volume" /\ call.pc = "setup"
    /\ IF ok
       THEN /\ vol' = [vol EXCEPT ![call.vol].provisioned = TRUE]
            /\ calls' = [calls EXCEPT ![c] =
                   [call EXCEPT !.pc = "attach",
                                !.log = @ \o <<"driver.attach_volume">>]]
       ELSE /\ vol' = vol
            /\ calls' = [calls EXCEPT ![c] = Finish(call, "VolumeError")]
    /\ UNCHANGED <<db, made>>

\* the attachment recorded whatever driver.attach_volume answered
AttachReturnRecordsFirst(c, ok) ==
    LET call == calls[c] IN
    /\ call.op = "attach_volume" /\ call.pc = "attach"
    /\ vol' = volume_attached(vol, call.vol, call.inst, call.mountpoint)
    /\ calls' = [calls EXCEPT ![c] =
           IF ok
           THEN Finish([call EXCEPT !.log = @ \o <<"volume_attached">>],
                       "True")
           ELSE [call EXCEPT !.pc = "compensate", !.exc = "AttachError",
                             !.log = @ \o <<"remove_compute_volume">>]]
    /\ UNCHANGED <<db, made>>

\* from the return of driver.attach_volume: volume_attached and
\* returnValue(True), or the except clause up to
\* `yield self.volume_manager.remove_compute_volume`
AttachReturn(c, ok) ==
    LET call == calls[c] IN
    /\ call.op = "attach_volume" /\ call.pc = "attach"
    /\ IF ok
       THEN /\ vol' = volume_attached(vol, call.vol, call.inst,
                                      call.mountpoint)
            /\ calls' = [calls EXCEPT ![c] =
                   Finish([call EXCEPT !.log = @ \o <<"volume_attached">>],
                          "True")]
       ELSE /\ vol' = vol
            /\ calls' = [calls EXCEPT ![c] =
                   [call EXCEPT !.pc = "compensate", !.exc = "AttachError",
                                !.log = @ \o <<"remove_compute_volume">>]]
    /\ UNCHANGED <<db, made>>

\* the error attach_volume ends with once the compensation has returned
\* (remove_ok) or raised: a raise inside the except clause replaces exc
CompensationResult(exc, remove_ok) ==
    IF remove_ok THEN exc ELSE "VolumeError"

\* from the return of remove_compute_volume in the except clause: raise exc
CompensateReturn(c, ok) ==
    LET call == calls[c] IN
    /\ call.op = "attach_volume" /\ call.pc = "compensate"
    /\ vol' = IF ok THEN [vol EXCEPT ![call.vol].provisioned = FALSE]
              ELSE vol
    /\ calls' = [calls EXCEPT ![c] =
                     Finish(call, CompensationResult(call.exc, ok))]
    /\ UNCHANGED <<db, made>>

\* ---------------------------------------------------------------- 4.4 source
\* live_migration up to the first rpc.call (pre_live_migration)
LiveMigration(i) ==
    LET c == NextCall
        call == [IdleCall EXCEPT !.op = "live_migration", !.inst = i,
                                 !.pc = "pre",
                                 !.log = <<"pre_live_migration">>]
    IN
    /\ c # 0
    /\ made' = made + 1
    /\ calls' = [calls EXCEPT ![c] = call]
    /\ UNCHANGED <<db, vol>>

\* line 359 `if not ret`, then lines 366-367: the driver is invoked
AfterPoll(call) ==
    IF ~Truthy(call.ret)
    THEN Finish([call EXCEPT !.log = @ \o <<"timeout">>], "None")
    ELSE [call EXCEPT !.pc = "migrate",
                      !.log = @ \o <<"driver.live_migration">>]

\* `while 0 != len(timeout_count)` is left when the list is empty
LoopTest(call) ==
    IF call.timeout_count = 0 THEN AfterPoll(call) ELSE call

\* line 337 written as `if not ret`
PreFailedFalsy(ret) == ~Truthy(ret)

\* line 337: `if True != ret`
PreFailed(ret) == ret # "True"

\* pre_live_migration has answered ret; t is FLAGS.live_migration_timeout
PreReturn(c, ret, t) ==
    LET call == calls[c] IN
    /\ call.op = "live_migration" /\ call.pc = "pre"
    /\ IF PreFailed(ret)
       THEN /\ t = 0
            /\ db' = instance_set_state(db, call.inst, RUNNING, "running")
            /\ calls' = [calls EXCEPT ![c] =
                   Finish([call EXCEPT !.ret = ret,
                                       !.log = @ \o <<"instance_set_state">>],
                          "None")]
       ELSE /\ db' = db
            /\ calls' = [calls EXCEPT ![c] =
                   LoopTest([call EXCEPT !.ret = ret, !.pc = "poll",
                                         !.timeout = t,
                                         !.timeout_count = t])]
    /\ UNCHANGED <<vol, made>>

\* the loop without its `break`
PollReturnNoBreak(c, ret) ==
    LET call == calls[c]
        polled == [call EXCEPT !.ret = ret, !.polls = @ \o <<ret>>]
    IN
    /\ call.op = "live_migration" /\ call.pc = "poll"
    /\ calls' = [calls EXCEPT ![c] =
           LoopTest([polled EXCEPT !.timeout_count = @ - 1,
                                   !.sleeps = @ + 1])]
    /\ UNCHANGED <<db, vol, made>>

\* one turn of the loop, lines 348-357: nwfilter_for_instance_exists has
\* answered ret
PollReturn(c, ret) ==
    LET call == calls[c]
        polled == [call EXCEPT !.ret = ret, !.polls = @ \o <<ret>>]
    IN
    /\ call.op = "live_migration" /\ call.pc = "poll"
    /\ calls' = [calls EXCEPT ![c] =
           IF Truthy(ret) THEN AfterPoll(polled)
           ELSE LoopTest([polled EXCEPT !.timeout_count = @ - 1,
                                        !.sleeps = @ + 1])]
    /\ UNCHANGED <<db, vol, made>>

\* a failure of the driver's live_migration reverting the record as the
\* failure of pre_live_migration does
MigrateReturnReverts(c, ret) ==
    LET call == calls[c] IN
    /\ call.op = "live_migration" /\ call.pc = "migrate"
    /\ calls' = [calls EXCEPT ![c] =
           IF ret = "raise" THEN Finish(call, "DriverError")
           ELSE Finish([call EXCEPT !.ret = ret], "None")]
    /\ db' = IF ret = "True" THEN db
             ELSE instance_set_state(db, call.inst, RUNNING, "running")
    /\ UNCHANGED <<vol, made>>

\* driver.live_migration has answered ret or raised
MigrateReturn(c, ret) ==
    LET call == calls[c] IN
    /\ call.op = "live_migration" /\ call.pc = "migrate"
    /\ calls' = [calls EXCEPT ![c] =
           IF ret = "raise" THEN Finish(call, "DriverError")
           ELSE Finish([call EXCEPT !.ret = ret], "None")]
    /\ UNCHANGED <<db, vol, made>>

\* ---------------------------------------------------------------- 4.4 dest
\* what db.volume_get_by_ec2_id answers: it raises NotFound, or lists no
\* volume, or lists volumes
VolumeLookups == {"NotFound", "empty", "listed"}

\* what db.instance_get_fixed_address answers
FixedAddresses == {"None", "10.0.0.3"}

\* line 300 left out
NoFixedAddressNoTest(fixed_ip) == FALSE

\* line 300: `if None == fixed_ip`
NoFixedAddress(fixed_ip) == fixed_ip = "None"

\* pre_live_migration on the destination, a plain function: it runs from
\* its call to its return or raise without a yield
PreLiveMigration(i, lookup, fixed_ip, nwfilter_ok, net_ok) ==
    LET c == NextCall
        call == [IdleCall EXCEPT !.op = "pre_live_migration", !.inst = i,
                                 !.volumes = lookup, !.fixed_ip = fixed_ip]
        looked == IF lookup = "NotFound" THEN <<"no volume">> ELSE <<>>
    IN
    /\ c # 0
    /\ made' = made + 1
    /\ calls' = [calls EXCEPT ![c] =
           IF NoFixedAddress(fixed_ip)
           THEN Finish([call EXCEPT !.log = looked],
                       "RemoteError: NotFoundError")
           ELSE IF ~nwfilter_ok
           THEN Finish([call EXCEPT !.log = looked \o
                                       <<"setup_nwfilters_for_instance">>],
                       "DriverError")
           ELSE IF ~net_ok
           THEN Finish([call EXCEPT !.log = looked \o
                                       <<"setup_nwfilters_for_instance",
                                         "setup_compute_network">>],
                       "NetworkError")
           ELSE Finish([call EXCEPT !.log = looked \o
                                       <<"setup_nwfilters_for_instance",
                                         "setup_compute_network">>],
                       "True")]
    /\ UNCHANGED <<db, vol>>

\* ---------------------------------------------------------------- reboot
\* reboot_instance up to `yield self.driver.reboot(instance_ref)`: the
\* synchronizer of line 156 reads info, then line 166 writes over it
RebootInstance(i, info) ==
    LET c == NextCall
        call == [IdleCall EXCEPT !.op = "reboot_instance", !.inst = i,
                                 !.ref_state = db[i].state,
                                 !.pc = "reboot",
                                 !.log = <<"_update_state", "reboot">>]
    IN
    /\ c # 0
    /\ made' = made + 1
    /\ db' = instance_set_state(update_state(db, i, info), i,
                                NOSTATE, "rebooting")
    /\ calls' = [calls EXCEPT ![c] = call]
    /\ UNCHANGED vol

\* the end of reboot_instance, rescue_instance and unrescue_instance after
\* their yield: the driver's error propagates from the yield, otherwise
\* `self._update_state(context, instance_id)` runs and the call returns
AfterDriver(d, call, ok, info) ==
    IF ok
    THEN [db |-> update_state(d, call.inst, info),
          call |-> Finish([call EXCEPT
                              !.info = info,
                              !.log = @ \o <<"driver ok", "_update_state">>],
                          "ok")]
    ELSE [db |-> d,
          call |-> Finish([call EXCEPT !.log = @ \o <<"driver failed">>],
                          "DriverError")]

\* reboot_instance from the return of driver.reboot to its end; info is
\* read only when the synchronizer runs
RebootReturn(c, ok, info) ==
    LET call == calls[c]
        ended == AfterDriver(db, call, ok, info)
    IN
    /\ call.op = "reboot_instance" /\ call.pc = "reboot"
    /\ ok \/ info = "absent"
    /\ db' = ended.db
    /\ calls' = [calls EXCEPT ![c] = ended.call]
    /\ UNCHANGED <<vol, made>>

\* rescue_instance up to `yield self.driver.rescue(instance_ref)`
RescueInstance(i) ==
    LET c == NextCall
        call == [IdleCall EXCEPT !.op = "rescue_instance", !.inst = i,
                                 !.pc = "rescue", !.log = <<"rescue">>]
    IN
    /\ c # 0
    /\ made' = made + 1
    /\ db' = instance_set_state(db, i, NOSTATE, "rescuing")
    /\ calls' = [calls EXCEPT ![c] = call]
    /\ UNCHANGED vol

\* rescue_instance from the return of driver.rescue to its end
RescueReturn(c, ok, info) ==
    LET call == calls[c]
        ended == AfterDriver(db, call, ok, info)
    IN
    /\ call.op = "rescue_instance" /\ call.pc = "rescue"
    /\ ok \/ info = "absent"
    /\ db' = ended.db
    /\ calls' = [calls EXCEPT ![c] = ended.call]
    /\ UNCHANGED <<vol, made>>

\* unrescue_instance up to `yield self.driver.unrescue(instance_ref)`
UnrescueInstance(i) ==
    LET c == NextCall
        call == [IdleCall EXCEPT !.op = "unrescue_instance", !.inst = i,
                                 !.pc = "unrescue", !.log = <<"unrescue">>]
    IN
    /\ c # 0
    /\ made' = made + 1
    /\ db' = instance_set_state(db, i, NOSTATE, "unrescuing")
    /\ calls' = [calls EXCEPT ![c] = call]
    /\ UNCHANGED vol

\* unrescue_instance from the return of driver.unrescue to its end
UnrescueReturn(c, ok, info) ==
    LET call == calls[c]
        ended == AfterDriver(db, call, ok, info)
    IN
    /\ call.op = "unrescue_instance" /\ call.pc = "unrescue"
    /\ ok \/ info = "absent"
    /\ db' = ended.db
    /\ calls' = [calls EXCEPT ![c] = ended.call]
    /\ UNCHANGED <<vol, made>>

\* ---------------------------------------------------------------- return
\* The result of a finished call goes back to its caller.  The Deferreds
\* terminate_instance dropped live on until their activations end.
Return(c) ==
    LET call == calls[c] IN
    /\ call.pc \in {"done", "returned"}
    /\ IF Suspended(call) = {}
       THEN calls' = [calls EXCEPT ![c] = IdleCall]
       ELSE /\ call.pc = "done"
            /\ calls' = [calls EXCEPT ![c].pc = "returned"]
    /\ UNCHANGED <<db, vol, made>>

\* ---------------------------------------------------------------- spec
InitRecord(s) ==
    [host |-> "none", state |-> s, task |-> "none",
     launched_at |-> FALSE, exists |-> TRUE]

NoVolume == [inst |-> "none", mountpoint |-> "none", provisioned |-> FALSE]

\* the volume store at the start: nothing attached, or every volume
\* attached to one served instance by earlier attach_volume calls
InitVolumes ==
    {[v \in Volumes |-> NoVolume]} \cup
    {[v \in Volumes |->
         [inst |-> i, provisioned |-> TRUE,
          mountpoint |-> IF v = VolumeOrder[1] THEN "/dev/vdb"
                                               ELSE "/dev/vdc"]] :
     i \in Served}

Init ==
    /\ db = [i \in Instances |-> InitRecord(NOSTATE)]
    /\ vol \in InitVolumes
    /\ calls = [c \in CallIds |-> IdleCall]
    /\ made = 0

\* Lifecycle Coordinator: run_instance, terminate_instance and the
\* detach_volume activations terminate_instance starts
LifecycleStep ==
    \/ ~Returning /\
       \E i \in Served, listed \in BOOLEAN, net_ok \in BOOLEAN :
           RunInstance(i, listed, net_ok)
    \/ ~Returning /\
       \E c \in CallIds, info \in DriverStates, spawn_ok \in BOOLEAN :
           SpawnReturn(c, info, spawn_ok)
    \/ ~Returning /\
       \E i \in Served :
           \E plans \in [1..Len(instance_volumes(vol, i)) -> SyncPlans] :
               TerminateInstance(i, plans)
    \/ ~Returning /\
       \E c \in CallIds, ok \in BOOLEAN : DestroyReturn(c, ok)
    \/ ~Returning /\
       \E c \in CallIds, k \in 1..Len(VolumeOrder), ok \in BOOLEAN :
           DetachDriverResume(c, k, ok)
    \/ ~Returning /\
       \E c \in CallIds, k \in 1..Len(VolumeOrder), ok \in BOOLEAN :
           DetachRemoveResume(c, k, ok)

\* Volume Attachment Coordinator: attach_volume and detach_volume
VolumeStep ==
    \/ ~Returning /\
       \E i \in Served, v \in Volumes, mp \in Mountpoints :
           AttachVolume(i, v, mp)
    \/ ~Returning /\
       \E c \in CallIds, ok \in BOOLEAN : SetupReturn(c, ok)
    \/ ~Returning /\
       \E c \in CallIds, ok \in BOOLEAN : AttachReturn(c, ok)
    \/ ~Returning /\
       \E c \in CallIds, ok \in BOOLEAN : CompensateReturn(c, ok)
    \/ ~Returning /\
       \E i \in Served, v \in Volumes, listed \in BOOLEAN :
           DetachVolume(i, v, listed)
    \/ ~Returning /\
       \E c \in CallIds, k \in 1..Len(VolumeOrder), ok \in BOOLEAN :
           DetachDriverResume(c, k, ok)
    \/ ~Returning /\
       \E c \in CallIds, k \in 1..Len(VolumeOrder), ok \in BOOLEAN :
           DetachRemoveResume(c, k, ok)

\* Live Migration Protocol, source and destination roles, beside
\* run_instance
MigrationStep ==
    \/ ~Returning /\
       \E i \in Served : LiveMigration(i)
    \/ ~Returning /\
       \E i \in Served, lookup \in VolumeLookups,
          fixed_ip \in FixedAddresses,
          nwfilter_ok \in BOOLEAN, net_ok \in BOOLEAN :
           PreLiveMigration(i, lookup, fixed_ip, nwfilter_ok, net_ok)
    \/ ~Returning /\
       \E c \in CallIds, ret \in RpcResults, t \in 0..MaxTimeout :
           PreReturn(c, ret, t)
    \/ ~Returning /\
       \E c \in CallIds, ret \in RpcResults : PollReturn(c, ret)
    \/ ~Returning /\
       \E c \in CallIds, ret \in {"True", "False", "raise"} :
           MigrateReturn(c, ret)
    \/ ~Returning /\
       \E i \in Served, listed \in BOOLEAN, net_ok \in BOOLEAN :
           RunInstance(i, listed, net_ok)
    \/ ~Returning /\
       \E c \in CallIds, info \in DriverStates, spawn_ok \in BOOLEAN :
           SpawnReturn(c, info, spawn_ok)

\* Lifecycle Coordinator: reboot_instance, rescue_instance and
\* unrescue_instance beside run_instance
OperationStep ==
    \/ ~Returning /\
       \E i \in Served, info \in DriverStates : RebootInstance(i, info)
    \/ ~Returning /\
       \E c \in CallIds, ok \in BOOLEAN, info \in DriverStates :
           RebootReturn(c, ok, info)
    \/ ~Returning /\
       \E i \in Served : RescueInstance(i)
    \/ ~Returning /\
       \E c \in CallIds, ok \in BOOLEAN, info \in DriverStates :
           RescueReturn(c, ok, info)
    \/ ~Returning /\
       \E i \in Served : UnrescueInstance(i)
    \/ ~Returning /\
       \E c \in CallIds, ok \in BOOLEAN, info \in DriverStates :
           UnrescueReturn(c, ok, info)
    \/ ~Returning /\
       \E i \in Served, listed \in BOOLEAN, net_ok \in BOOLEAN :
           RunInstance(i, listed, net_ok)
    \/ ~Returning /\
       \E c \in CallIds, info \in DriverStates, spawn_ok \in BOOLEAN :
           SpawnReturn(c, info, spawn_ok)

\* Volume Attachment Coordinator called for either instance
PairStep ==
    \/ ~Returning /\
       \E i \in Instances, v \in Volumes, mp \in Mountpoints :
           AttachVolume(i, v, mp)
    \/ ~Returning /\
       \E c \in CallIds, ok \in BOOLEAN : SetupReturn(c, ok)
    \/ ~Returning /\
       \E c \in CallIds, ok \in BOOLEAN : AttachReturn(c, ok)
    \/ ~Returning /\
       \E c \in CallIds, ok \in BOOLEAN : CompensateReturn(c, ok)
    \/ ~Returning /\
       \E i \in Instances, v \in Volumes, listed \in BOOLEAN :
           DetachVolume(i, v, listed)
    \/ ~Returning /\
       \E c \in CallIds, k \in 1..Len(VolumeOrder), ok \in BOOLEAN :
           DetachDriverResume(c, k, ok)
    \/ ~Returning /\
       \E c \in CallIds, k \in 1..Len(VolumeOrder), ok \in BOOLEAN :
           DetachRemoveResume(c, k, ok)

Next ==
    \/ LifecycleStep
    \/ \E c \in CallIds : Return(c)

VolumeNext ==
    \/ VolumeStep
    \/ \E c \in CallIds : Return(c)

MigrationNext ==
    \/ MigrationStep
    \/ \E c \in CallIds : Return(c)

OperationNext ==
    \/ OperationStep
    \/ \E c \in CallIds : Return(c)

PairNext ==
    \/ PairStep
    \/ \E c \in CallIds : Return(c)

Spec == Init /\ [][Next]_vars
VolumeSpec == Init /\ [][VolumeNext]_vars
MigrationSpec == Init /\ [][MigrationNext]_vars
OperationSpec == Init /\ [][OperationNext]_vars
PairSpec == Init /\ [][PairNext]_vars

\* ---------------------------------------------------------------- properties
InLog(log, e) == \E n \in 1..Len(log) : log[n] = e
Count(log, e) == Cardinality({n \in 1..Len(log) : log[n] = e})

\* the step in which the inbound call of slot c arrives
Arrives(c, op) == calls[c].op = "idle" /\ calls'[c].op = op

\* the step in which the call of slot c ends
Ends(c, op) ==
    calls[c].op = op /\ calls[c].pc # "done" /\ calls'[c].pc = "done"

\* C1: a run_instance for an instance whose name the driver already lists
\* ends at once with the "already created" error; the instance store and
\* the volume store are as before, and neither setup_compute_network nor
\* driver.spawn has been invoked.
C1_AlreadyCreatedChangesNothing ==
    [][\A c \in CallIds :
          (Arrives(c, "run_instance") /\ calls'[c].listed)
          => /\ calls'[c].pc = "done"
             /\ calls'[c].result = "Error: already created"
             /\ calls'[c].log = <<>>
             /\ db' = db
             /\ vol' = vol]_vars

C1_Witness ==
    \E c \in CallIds :
        /\ calls[c].op = "run_instance" /\ calls[c].listed
        /\ calls[c].pc = "done"
        /\ calls[c].result = "Error: already created"

\* C2: a run_instance whose driver.spawn fails ends without an error,
\* after _update_state has run, with the persisted power_state SHUTDOWN.
C2_SpawnFailureEndsShutdown ==
    [][\A c \in CallIds :
          (Ends(c, "run_instance") /\ InLog(calls'[c].log, "spawn failed"))
          => /\ calls'[c].result = "ok"
             /\ InLog(calls'[c].log, "_update_state")
             /\ db'[calls[c].inst].state = SHUTDOWN]_vars

\* C3: a run_instance for an instance the driver does not list whose
\* driver.spawn succeeds ends with host this node, launched_at set, and
\* the persisted power_state the state get_info reports, NOSTATE when
\* get_info does not find the instance.
C3_SpawnSuccessEndsSynced ==
    [][\A c \in CallIds :
          (Ends(c, "run_instance") /\ InLog(calls'[c].log, "spawn ok"))
          => LET i == calls[c].inst
                 info == calls'[c].info
             IN /\ ~calls[c].listed
                /\ calls'[c].result = "ok"
                /\ db'[i].host = "this"
                /\ db'[i].launched_at
                /\ db'[i].state = IF info = "absent" THEN NOSTATE ELSE info
                /\ db'[i].state \in PowerStates]_vars

C3_Witness ==
    \E c \in CallIds :
        /\ calls[c].op = "run_instance" /\ calls[c].pc = "done"
        /\ InLog(calls[c].log, "spawn ok")
        /\ calls[c].info = "absent"
        /\ db[calls[c].inst].state = NOSTATE
        /\ db[calls[c].inst].launched_at

\* C4: when terminate_instance invokes driver.destroy, every detach_volume
\* it started for the volumes of the instance has completed.
C4_DetachedBeforeDestroy ==
    [][\A c \in CallIds :
          (Arrives(c, "terminate_instance") /\ InLog(calls'[c].log, "destroy"))
          => \A k \in 1..Len(calls'[c].frames) :
                 calls'[c].frames[k].pc = "done"]_vars

\* C5: a terminate_instance for an instance whose persisted power_state is
\* SHUTOFF destroys the record and ends with the "already destroyed" error
\* without invoking driver.destroy.
C5_ShutoffDestroysAndFails ==
    [][\A c \in CallIds :
          (Arrives(c, "terminate_instance")
               /\ db[calls'[c].inst].state = SHUTOFF)
          => /\ calls'[c].pc = "done"
             /\ calls'[c].result = "Error: already destroyed"
             /\ calls'[c].log = <<"instance_destroy">>
             /\ ~db'[calls'[c].inst].exists]_vars

C5_Witness ==
    \E c \in CallIds :
        /\ calls[c].op = "terminate_instance" /\ calls[c].pc = "done"
        /\ calls[c].ref_state = SHUTOFF
        /\ calls[c].result = "Error: already destroyed"
        /\ ~db[calls[c].inst].exists

\* C6: an attach_volume whose driver.attach_volume failed ends with that
\* error, after asking remove_compute_volume once.
C6_OriginalErrorSurfaces ==
    [][\A c \in CallIds :
          (Ends(c, "attach_volume") /\ calls[c].pc = "compensate")
          => /\ calls'[c].result = "AttachError"
             /\ Count(calls'[c].log, "remove_compute_volume") = 1]_vars

\* the attachment record of a volume
Attachment(vs, v) == <<vs[v].inst, vs[v].mountpoint>>

\* C7: the only step of an attach_volume that changes an attachment record
\* is the one that follows the successful return of driver.attach_volume:
\* it records the volume at the instance and mountpoint of the call, ends
\* the call with True, and leaves the volume's provisioning alone, the call
\* never having asked remove_compute_volume.  A call that fails has
\* created no attachment record.
C7_AttachRecordsAfterDriver ==
    [][\A c \in CallIds :
          (calls'[c] # calls[c] /\ calls'[c].op = "attach_volume")
          => LET call == calls'[c] IN
             IF call.pc = "done" /\ call.result = "True"
             THEN /\ calls[c].pc = "attach"
                  /\ Attachment(vol', call.vol)
                         = <<call.inst, call.mountpoint>>
                  /\ vol'[call.vol].provisioned = vol[call.vol].provisioned
                  /\ InLog(call.log, "setup_compute_volume")
                  /\ Count(call.log, "remove_compute_volume") = 0
             ELSE \A v \in Volumes :
                      Attachment(vol', v) = Attachment(vol, v)]_vars

C7_Witness ==
    \E c \in CallIds :
        /\ calls[c].op = "attach_volume" /\ calls[c].pc = "done"
        /\ calls[c].result = "True"
        /\ Attachment(vol, calls[c].vol)
               = <<calls[c].inst, calls[c].mountpoint>>
        /\ vol[calls[c].vol].provisioned

C9_PreFailureReverts ==
    [][\A c \in CallIds :
          (calls[c].pc = "pre" /\ calls'[c].pc # "pre"
               /\ calls'[c].ret # "True")
          => /\ calls'[c].pc = "done"
             /\ db'[calls[c].inst].state = RUNNING
             /\ calls'[c].polls = <<>>
             /\ calls'[c].sleeps = 0
             /\ ~InLog(calls'[c].log, "driver.live_migration")]_vars

C9_Witness ==
    \E c \in CallIds :
        /\ calls[c].op = "live_migration" /\ calls[c].pc = "done"
        /\ calls[c].ret = "False"
        /\ calls[c].polls = <<>>
        /\ InLog(calls[c].log, "instance_set_state")
        /\ db[calls[c].inst].state = RUNNING

\* C10: in live_migration no poll follows a poll that answered true; the
\* call has slept one second after each poll that answered false and never
\* after more than live_migration_timeout of them; while it polls, fewer
\* than live_migration_timeout polls have been made; and when it has left
\* the loop without a true answer it has made exactly
\* live_migration_timeout polls.
C10_PollStops ==
    \A c \in CallIds :
        calls[c].op = "live_migration" =>
        LET call == calls[c]
            n == Len(call.polls)
            falsy == {k \in 1..n : ~Truthy(call.polls[k])}
            left == InLog(call.log, "timeout")
                        \/ InLog(call.log, "driver.live_migration")
        IN
        /\ \A k \in 1..n : k < n => k \in falsy
        /\ call.sleeps = Cardinality(falsy)
        /\ call.sleeps <= call.timeout
        /\ call.timeout_count = call.timeout - call.sleeps
        /\ call.pc = "poll" => (falsy = 1..n /\ n < call.timeout)
        /\ (left /\ falsy = 1..n) => n = call.timeout
        /\ InLog(call.log, "timeout") => (falsy = 1..n /\ n > 0)
        /\ (left /\ n > 0 /\ ~InLog(call.log, "timeout"))
               => Truthy(call.polls[n])

C10_Witness ==
    \E c \in CallIds :
        /\ calls[c].op = "live_migration" /\ calls[c].pc = "done"
        /\ InLog(calls[c].log, "timeout")
        /\ calls[c].timeout = 2
        /\ calls[c].polls = <<"False", "None">>
        /\ calls[c].sleeps = 2

\* C11: in every live_migration call, whatever live_migration_timeout is,
\* the driver's live_migration has been invoked only after a
\* nwfilter_for_instance_exists call of that same call answered true.
C11_ConfirmedBeforeMigrate ==
    \A c \in CallIds :
        (/\ calls[c].op = "live_migration"
         /\ InLog(calls[c].log, "driver.live_migration"))
        => \E k \in 1..Len(calls[c].polls) : Truthy(calls[c].polls[k])

\* the call of slot c has just run the State Synchronizer as its last step
Synced(call) ==
    /\ call.pc = "done"
    /\ Len(call.log) > 0
    /\ call.log[Len(call.log)] = "_update_state"

\* C12: the State Synchronizer run a second time for the same instance,
\* the driver answering as the first time, leaves the persisted power
\* state (and the whole record) as the first run left it; so it does after
\* the run that ended a lifecycle call.
C12_SyncTwiceSame ==
    /\ \A i \in Instances, info \in DriverStates :
           LET once == update_state(db, i, info)
               twice == update_state(once, i, info)
           IN /\ twice[i].state = once[i].state
              /\ twice = once
    /\ \A c \in CallIds :
           Synced(calls[c]) =>
           update_state(db, calls[c].inst, calls[c].info) = db

C12_Witness ==
    \E c \in CallIds :
        /\ Synced(calls[c])
        /\ calls[c].op = "reboot_instance"
        /\ calls[c].info = SHUTOFF
        /\ db[calls[c].inst].state = SHUTOFF

LifecycleOps ==
    {"run_instance", "reboot_instance", "rescue_instance",
     "unrescue_instance"}

\* a run, reboot, rescue or unrescue of instance i is in progress
InFlight(i) ==
    \E c \in CallIds :
        /\ calls[c].inst = i
        /\ calls[c].op \in LifecycleOps
        /\ calls[c].pc \notin {"done", "returned"}

\* C13: whenever no run, reboot, rescue or unrescue of an instance is in
\* progress, also after one ended because its driver call failed, the
\* persisted task state of the instance is none.
C13_TaskOnlyInFlight ==
    \A i \in Instances : ~InFlight(i) => db[i].task = "none"

\* the call has invoked its driver operation
DriverCalled(call) ==
    \/ InLog(call.log, "spawn")
    \/ InLog(call.log, "reboot")
    \/ InLog(call.log, "rescue")
    \/ InLog(call.log, "unrescue")

\* C14: a run_instance, reboot_instance, rescue_instance or
\* unrescue_instance call that has made its driver call finishes, by
\* success or by the driver's failure, with the State Synchronizer as its
\* last step, and the persisted power state is then what the driver
\* reported to that synchronization.
C14_EndsSynchronized ==
    \A c \in CallIds :
        (/\ calls[c].op \in LifecycleOps
         /\ calls[c].pc = "done"
         /\ DriverCalled(calls[c]))
        => /\ Synced(calls[c])
           /\ db[calls[c].inst].state = SyncedState(calls[c].info)

\* C15: a run of the State Synchronizer in which the driver reports the
\* instance as not found persists power state NOSTATE and raises nothing;
\* on any other answer it persists exactly the reported state.
C15_NotFoundRecordsNostate ==
    [][\A c \in CallIds :
          (~Synced(calls[c]) /\ Synced(calls'[c]))
          => LET call == calls'[c] IN
             /\ call.result = "ok"
             /\ call.info \in DriverStates
             /\ call.info = "absent" => db'[call.inst].state = NOSTATE
             /\ call.info # "absent" => db'[call.inst].state = call.info
             /\ db'[call.inst].task = "none"]_vars

C15_Witness ==
    \E c \in CallIds :
        /\ Synced(calls[c])
        /\ calls[c].op = "rescue_instance"
        /\ calls[c].info = "absent"
        /\ calls[c].result = "ok"
        /\ db[calls[c].inst].state = NOSTATE

\* the collaborator calls of a pre_live_migration, in order
IsSetupCall(e) == e # "no volume"
SetupCalls(call) == SelectSeq(call.log, IsSetupCall)

\* C16: pre_live_migration for an instance without a fixed address fails
\* with the NotFoundError remote error and invokes neither the driver's
\* nwfilter setup nor the network bridging; with a fixed address it invokes
\* the nwfilter setup first, the bridging after it, and then returns true
\* (an error of either collaborator ends it there); whether the volume
\* lookup finds volumes, finds none or raises NotFound changes none of it.
C16_FixedAddressRequired ==
    [][\A c \in CallIds :
          Arrives(c, "pre_live_migration")
          => LET call == calls'[c] IN
             /\ call.pc = "done"
             /\ db' = db /\ vol' = vol
             /\ call.fixed_ip = "None"
                => /\ call.result = "RemoteError: NotFoundError"
                   /\ SetupCalls(call) = <<>>
             /\ call.fixed_ip # "None"
                => /\ call.result \in {"True", "DriverError", "NetworkError"}
                   /\ SetupCalls(call)[1] = "setup_nwfilters_for_instance"
                   /\ call.result = "DriverError"
                      => Len(SetupCalls(call)) = 1
                   /\ call.result # "DriverError"
                      => SetupCalls(call) =
                             <<"setup_nwfilters_for_instance",
                               "setup_compute_network">>
             /\ call.volumes = "NotFound" <=> InLog(call.log, "no volume")]_vars

C16_Witness ==
    \E c \in CallIds :
        /\ calls[c].op = "pre_live_migration"
        /\ calls[c].volumes = "NotFound"
        /\ calls[c].fixed_ip # "None"
        /\ calls[c].result = "True"
        /\ calls[c].log = <<"no volume", "setup_nwfilters_for_instance",
                            "setup_compute_network">>

\* the call of slot c is a live_migration that has given up: its poll
\* timed out, or the driver's live_migration answered false
Aborted(call) ==
    /\ call.op = "live_migration"
    /\ call.pc = "done"
    /\ \/ InLog(call.log, "timeout")
       \/ InLog(call.log, "driver.live_migration") /\ call.ret = "False"

\* C17: the step in which live_migration gives up, after the poll timed
\* out or after the driver's live_migration reported failure, leaves the
\* instance store and the volume store as they were, and the call has
\* asked the destination for nothing but pre_live_migration and the polls.
C17_AbortChangesNothing ==
    [][\A c \in CallIds :
          (~Aborted(calls[c]) /\ Aborted(calls'[c]))
          => /\ db' = db
             /\ vol' = vol
             /\ \A n \in 1..Len(calls'[c].log) :
                    calls'[c].log[n] \in {"pre_live_migration", "timeout",
                                          "driver.live_migration"}
             /\ Count(calls'[c].log, "pre_live_migration") = 1]_vars

C17_Witness ==
    \E c \in CallIds :
        /\ Aborted(calls[c])
        /\ calls[c].ret = "False"
        /\ calls[c].polls = <<"None", "1">>
        /\ calls[c].log = <<"pre_live_migration", "driver.live_migration">>

\* C18: a terminate_instance that found the persisted power state other
\* than SHUTOFF leaves the record alone until driver.destroy has returned;
\* when destroy succeeded it destroys the record and ends without an
\* error; when destroy raised, the error is the call's result and the call
\* has not destroyed the record.
C18_DestroyThenRecord ==
    [][\A c \in CallIds :
          /\ (Arrives(c, "terminate_instance")
              /\ calls'[c].ref_state # SHUTOFF)
             => /\ calls'[c].pc = "destroy"
                /\ calls'[c].log = <<"destroy">>
                /\ db' = db
          /\ (Ends(c, "terminate_instance") /\ calls[c].pc = "destroy")
             => LET call == calls'[c] IN
                /\ call.result \in {"ok", "DriverError"}
                /\ call.result = "ok"
                   => /\ call.log = <<"destroy", "instance_destroy">>
                      /\ ~db'[call.inst].exists
                /\ call.result = "DriverError"
                   => /\ call.log = <<"destroy">>
                      /\ db' = db]_vars

C18_Witness ==
    \E c \in CallIds :
        /\ calls[c].op = "terminate_instance" /\ calls[c].pc = "done"
        /\ calls[c].ref_state # SHUTOFF
        /\ calls[c].result = "DriverError"
        /\ db[calls[c].inst].exists

\* the step is one of the call of slot c
Acts(c) == calls'[c] # calls[c] /\ calls'[c].op # "idle"

\* C19: a step of an operation invoked for instance i leaves the record of
\* every other instance j, and the attachment of every volume attached to
\* j, as they were.
C19_OtherInstancesUntouched ==
    [][\A c \in CallIds :
          Acts(c)
          => \A j \in Instances \ {calls'[c].inst} :
                 /\ db'[j] = db[j]
                 /\ \A v \in Volumes :
                        vol[v].inst = j
                        => Attachment(vol', v) = Attachment(vol, v)]_vars

\* C20: nothing serializes the calls of one instance: a terminate_instance
\* runs to its end and destroys the record while a run_instance of the
\* same instance waits at driver.spawn, and the run_instance that resumes
\* then writes its state into the destroyed record and ends without an
\* error.
C20_ResumeWritesDestroyed ==
    [][\A c \in CallIds :
          (/\ Ends(c, "run_instance")
           /\ calls[c].pc = "spawn"
           /\ ~db[calls[c].inst].exists)
          => LET call == calls'[c] IN
             /\ call.result = "ok"
             /\ ~db'[call.inst].exists
             /\ db'[call.inst].state = SyncedState(call.info)
             /\ db'[call.inst].task = "none"
             /\ InLog(call.log, "spawn ok")
                => db'[call.inst].launched_at]_vars

C20_Witness ==
    \E c \in CallIds :
        /\ calls[c].op = "run_instance" /\ calls[c].pc = "done"
        /\ InLog(calls[c].log, "spawn ok")
        /\ calls[c].info = RUNNING
        /\ made = 2
        /\ ~db[calls[c].inst].exists
        /\ db[calls[c].inst].state = RUNNING
        /\ db[calls[c].inst].launched_at

====
